---- MODULE Spec2Model ----
(***************************************************************************)
(* The virtual trackball of modelplane/gfx/trackball.py as a state machine.*)
(*                                                                         *)
(* Numbers.  Python floats are carried as fixed-point integers: the        *)
(* integer n stands for n / Unit.  Every product, quotient and square root *)
(* rounds to the nearest representable value, as the float operation does. *)
(* Angles in degrees are integers, multiples of 15; sin and cos of half    *)
(* angles come from a table in steps of 7.5 degrees and atan is rounded to *)
(* the nearest multiple of 15 degrees.  GLfloat (single precision) keeps   *)
(* fewer digits than float: see GLfloat below.                             *)
(***************************************************************************)
EXTENDS Integers, Sequences, FiniteSets, TLC

\* 1.0 in fixed point: four decimal places.
Unit == 100 * 100

Abs(n) == IF n < 0 THEN -n ELSE n

\* n / d rounded to the nearest integer, halves away from zero (d > 0).
RDivPos(n, d) == (n \div d) + (IF 2 * (n % d) >= d THEN 1 ELSE 0)

RDiv(n, d) == IF n >= 0 THEN RDivPos(n, d) ELSE -RDivPos(-n, d)

\* float * float
Mul(a, b) == RDiv(a * b, Unit)

\* float / float, b # 0 (the callers test b = 0 where Python raises).
Div(a, b) == IF b > 0 THEN RDiv(a * Unit, b) ELSE RDiv((-a) * Unit, -b)

RECURSIVE ISqrtIn(_, _, _)
ISqrtIn(n, lo, hi) ==
    IF lo >= hi THEN lo
    ELSE LET mid == (lo + hi + 1) \div 2
         IN  IF mid * mid <= n THEN ISqrtIn(n, mid, hi) ELSE ISqrtIn(n, lo, mid - 1)

\* math.sqrt(a), a >= 0, rounded to the nearest representable value.
Sqrt(a) ==
    LET n == a * Unit
        r == ISqrtIn(n, 0, 46340)
    IN  IF n - r * r > r THEN r + 1 ELSE r

\* ---------------------------------------------------------------- vectors
_v_add(v1, v2) == <<v1[1] + v2[1], v1[2] + v2[2], v1[3] + v2[3]>>

_v_sub(v1, v2) == <<v1[1] - v2[1], v1[2] - v2[2], v1[3] - v2[3]>>

_v_mul(v, s) == <<Mul(v[1], s), Mul(v[2], s), Mul(v[3], s)>>

_v_dot(v1, v2) == Mul(v1[1], v2[1]) + Mul(v1[2], v2[2]) + Mul(v1[3], v2[3])

_v_cross(v1, v2) ==
    << Mul(v1[2], v2[3]) - Mul(v1[3], v2[2]),
       Mul(v1[3], v2[1]) - Mul(v1[1], v2[3]),
       Mul(v1[1], v2[2]) - Mul(v1[2], v2[1]) >>

_v_length(v) == Sqrt(_v_dot(v, v))

\* except ZeroDivisionError: return v
_v_normalize(v) ==
    IF _v_length(v) = 0 THEN v ELSE _v_mul(v, Div(Unit, _v_length(v)))

\* ------------------------------------------------------------ quaternions
\* A quaternion is <<x, y, z, w>>: q[1..3] the vector part, q[4] the scalar.
\* Mutant of _q_add: the component-wise sum its name suggests.
_q_add_componentwise(q1, q2) ==
    <<q1[1] + q2[1], q1[2] + q2[2], q1[3] + q2[3], q1[4] + q2[4]>>

_q_add(q1, q2) ==
    LET t1 == _v_mul(q1, q2[4])
        t2 == _v_mul(q2, q1[4])
        t3 == _v_cross(q2, q1)
        tf == _v_add(t3, _v_add(t1, t2))
    IN  <<tf[1], tf[2], tf[3], Mul(q1[4], q2[4]) - _v_dot(q1, q2)>>

_q_mul(q, s) == <<Mul(q[1], s), Mul(q[2], s), Mul(q[3], s), Mul(q[4], s)>>

_q_dot(q1, q2) ==
    Mul(q1[1], q2[1]) + Mul(q1[2], q2[2]) + Mul(q1[3], q2[3]) + Mul(q1[4], q2[4])

_q_length(q) == Sqrt(_q_dot(q, q))

\* except ZeroDivisionError: return q
_q_normalize(q) ==
    IF _q_length(q) = 0 THEN q ELSE _q_mul(q, Div(Unit, _q_length(q)))

\* The angle phi = 2 * asin(t) of _rotate is carried as t = sin(phi / 2), so
\* sin(phi / 2.0) is t and cos(phi / 2.0) is sqrt(1 - t * t), 0 <= t <= 1.
_q_from_axis_angle(v, t) ==
    LET q == _v_mul(_v_normalize(v), t)
    IN  <<q[1], q[2], q[3], Sqrt(Unit - Mul(t, t))>>

\* The 16 entries m[i*4+j] of the source are m[i*4+j+1] here.
_q_rotmatrix(q) ==
    << Unit - 2 * (Mul(q[2], q[2]) + Mul(q[3], q[3])),
       2 * (Mul(q[1], q[2]) - Mul(q[3], q[4])),
       2 * (Mul(q[3], q[1]) + Mul(q[2], q[4])),
       0,
       2 * (Mul(q[1], q[2]) + Mul(q[3], q[4])),
       Unit - 2 * (Mul(q[3], q[3]) + Mul(q[1], q[1])),
       2 * (Mul(q[2], q[3]) - Mul(q[1], q[4])),
       0,
       2 * (Mul(q[3], q[1]) - Mul(q[2], q[4])),
       2 * (Mul(q[2], q[3]) + Mul(q[1], q[4])),
       Unit - 2 * (Mul(q[2], q[2]) + Mul(q[1], q[1])),
       0,
       0, 0, 0, Unit >>

\* ------------------------------------------------------------------- angles
\* sin(k * 7.5 degrees) for k = 0 .. 12.
SinTable ==
    <<0, 1305, 2588, 3827, 5000, 6088, 7071, 7934, 8660, 9239, 9659, 9914, 10000>>

\* math.sin of k * 7.5 degrees, any integer k.
SinStep(k) ==
    LET m == k % 48
    IN  IF m <= 12 THEN SinTable[m + 1]
        ELSE IF m <= 24 THEN SinTable[24 - m + 1]
        ELSE IF m <= 36 THEN -SinTable[m - 24 + 1]
        ELSE -SinTable[48 - m + 1]

\* math.cos of k * 7.5 degrees.
CosStep(k) == SinStep(k + 12)

\* math.sin(0.5 * angle) and math.cos(0.5 * angle), angle = deg * (pi / 180).
SinHalf(deg) == SinStep(deg \div 15)

CosHalf(deg) == CosStep(deg \div 15)

\* math.atan(r) * 180.0 / math.pi, rounded to the nearest multiple of 15; the
\* thresholds are tan(7.5), tan(22.5), ... tan(82.5 degrees).
AtanDeg(r) ==
    LET a == Abs(r)
        d == IF a < 1317 THEN 0
             ELSE IF a < 4142 THEN 15
             ELSE IF a < 7673 THEN 30
             ELSE IF a < 13032 THEN 45
             ELSE IF a < 24142 THEN 60
             ELSE IF a < 75958 THEN 75
             ELSE 90
    IN  IF r < 0 THEN -d ELSE d

\* math.fmod(a, m): the remainder has the sign of a.
Fmod(a, m) == IF a >= 0 THEN a % m ELSE -((-a) % m)

\* (GLfloat * len(m))(*m): single precision keeps fewer digits than a float;
\* here two decimal places of the four.
GLfloat(m) == [i \in DOMAIN m |-> RDiv(m[i], 100) * 100]

\* -------------------------------------------------------------- Trackball
_RENORMCOUNT == 97

_TRACKBALLSIZE == 8000

\* zoom.setter: the value stored by self.zoom = zoom.
zoom_setter(zoom) ==
    LET z1 == IF zoom < 2500 THEN 2500 ELSE zoom
    IN  IF z1 > 10 * Unit THEN 10 * Unit ELSE z1

\* Mutant of distance_setter: the lower clamp forgotten.
distance_setter_unclamped(distance) == distance

\* distance.setter: the value stored by self.distance = distance.
distance_setter(distance) == IF distance < Unit THEN Unit ELSE distance

\* The rotation _set_orientation computes for theta and phi (degrees).
_set_orientation(theta, phi) ==
    LET xrot == <<SinHalf(theta), 0, 0, CosHalf(theta)>>
        zrot == <<0, 0, SinHalf(phi), CosHalf(phi)>>
    IN  _q_add(xrot, zrot)

\* The two divisors of _get_orientation; Python raises ZeroDivisionError when
\* one of them is 0.0, as for Trackball(90, 45) and Trackball(30, 90).  Fixed
\* point rounds a divisor to 0 for more orientations than floats do.
_get_orientation_raises(q) ==
    \/ Unit - 2 * (Mul(q[2], q[2]) + Mul(q[3], q[3])) = 0
    \/ Unit - 2 * (Mul(q[3], q[3]) + Mul(q[4], q[4])) = 0

\* <<theta, phi>> = (-az, ax) of _get_orientation.
_get_orientation(q) ==
    LET ax == AtanDeg(Div(2 * (Mul(q[1], q[2]) + Mul(q[3], q[4])),
                          Unit - 2 * (Mul(q[2], q[2]) + Mul(q[3], q[3]))))
        az == AtanDeg(Div(2 * (Mul(q[1], q[4]) + Mul(q[2], q[3])),
                          Unit - 2 * (Mul(q[3], q[3]) + Mul(q[4], q[4]))))
    IN  <<-az, ax>>

_project(r, x, y) ==
    LET d == Sqrt(Mul(x, x) + Mul(y, y))
    IN  IF d < Mul(r, 7071)
        THEN Sqrt(Mul(r, r) - Mul(d, d))
        ELSE LET t == Div(r, 14142) IN Div(Mul(t, t), d)

\* The incremental rotation of a drag from (x, y) by (dx, dy), all normalized.
_rotate(x, y, dx, dy) ==
    IF dx = 0 /\ dy = 0 THEN <<0, 0, 0, Unit>>
    ELSE LET last == <<x, y, _project(_TRACKBALLSIZE, x, y)>>
             new == <<x + dx, y + dy, _project(_TRACKBALLSIZE, x + dx, y + dy)>>
             a == _v_cross(new, last)
             d == _v_sub(last, new)
             t0 == Div(_v_length(d), 2 * _TRACKBALLSIZE)
             t == IF t0 > Unit THEN Unit ELSE t0
         IN  _q_from_axis_angle(a, t)

\* ------------------------------------------------------------------ state
VARIABLES
    _rotation,    \* self._rotation, <<x, y, z, w>>
    _zoom,        \* self._zoom
    _distance,    \* self._distance
    _count,       \* self._count, drags since the last renormalization
    _matrix,      \* self._matrix, 16 GLfloat
    _theta,       \* self._theta, degrees
    _phi,         \* self._phi, degrees
    _x,           \* self._x, pan offset
    _y,           \* self._y
    projStack,    \* the pipeline's GL_PROJECTION matrix stack, top last
    mvStack,      \* the pipeline's GL_MODELVIEW matrix stack, top last
    matrixMode,   \* the pipeline's current matrix mode
    raised,       \* the operation whose last call raised, or "none"
    nDrags,       \* history: drag_to calls that returned since construction
    distAssigned, \* history: a distance assignment has happened
    panSum,       \* history: <<sum of dx, sum of dy>> over the pan_to calls
    nPans,        \* history: pan_to calls since construction
    frames,       \* history: the stacks as they were at each open push
    nOps          \* history: operations called since construction

obj == <<_rotation, _zoom, _distance, _count, _matrix, _theta, _phi, _x, _y>>

gl == <<projStack, mvStack, matrixMode>>

hist == <<nDrags, distAssigned, panSum, nPans, frames>>

vars == <<obj, gl, raised, hist, nOps>>

\* A matrix of the pipeline: what was loaded into it.
Identity == [kind |-> "identity", args |-> <<>>, m |-> <<>>]

\* self._matrix after the rotation became q (drag_to, _set_orientation).
rotation_matrix(q) == GLfloat(_q_rotmatrix(q))

\* Trackball(theta, phi, zoom, distance) on a fresh pipeline.
Trackball_init(theta, phi, zoom, distance) ==
    /\ _rotation = _set_orientation(theta, phi)
    /\ _zoom = zoom
    /\ _distance = distance
    /\ _count = 0
    /\ _matrix = rotation_matrix(_set_orientation(theta, phi))
    /\ _theta = theta
    /\ _phi = phi
    /\ _x = 0
    /\ _y = 0
    /\ projStack = <<Identity>>
    /\ mvStack = <<Identity>>
    /\ matrixMode = "MODELVIEW"
    /\ raised = "none"
    /\ nDrags = 0
    /\ distAssigned = FALSE
    /\ panSum = <<0, 0>>
    /\ nPans = 0
    /\ frames = <<>>

\* Mutant of drag_matrix: the cached matrix is not regenerated.
drag_matrix_stale(q) == _matrix

\* self._matrix after a drag left the rotation q.
drag_matrix(q) == rotation_matrix(q)

\* self._rotation after a drag whose incremental rotation is q: compose, drop
\* the z component, renormalize when the counter passes _RENORMCOUNT.
drag_rotation(q) ==
    LET r == [_q_add(q, _rotation) EXCEPT ![3] = 0]
    IN  IF _count + 1 > _RENORMCOUNT THEN _q_normalize(r) ELSE r

\* drag_to(x, y, dx, dy) in pixels, the viewport being vw by vh pixels.
drag_to(x, y, dx, dy, vw, vh) ==
    IF vw = 0 \/ vh = 0
    THEN /\ raised' = "drag_to"
         /\ UNCHANGED <<obj, gl, hist>>
    ELSE LET width == vw * Unit
             height == vh * Unit
             q == _rotate(Div(x * 2 * Unit - width, width),
                          Div(y * 2 * Unit - height, height),
                          Div(2 * dx * Unit, width),
                          Div(2 * dy * Unit, height))
         IN  /\ _rotation' = drag_rotation(q)
             /\ _count' = IF _count + 1 > _RENORMCOUNT THEN 0 ELSE _count + 1
             /\ _matrix' = drag_matrix(drag_rotation(q))
             /\ nDrags' = nDrags + 1
             /\ raised' = "none"
             /\ UNCHANGED <<_zoom, _distance, _theta, _phi, _x, _y, gl,
                            distAssigned, panSum, nPans, frames>>

\* zoom_to(x, y, dx, dy): only dy (pixels) and the viewport's height are read.
zoom_to(dy, vh) ==
    IF vh = 0
    THEN /\ raised' = "zoom_to"
         /\ UNCHANGED <<obj, gl, hist>>
    ELSE /\ _zoom' = zoom_setter(_zoom - Div(5 * dy * Unit, vh * Unit))
         /\ raised' = "none"
         /\ UNCHANGED <<_rotation, _distance, _count, _matrix, _theta, _phi,
                        _x, _y, gl, hist>>

\* Mutant of pan_step: the factor 0.1 forgotten.
pan_step_unscaled(d) == d * Unit

\* dx * 0.1
pan_step(d) == Mul(d * Unit, 1000)

\* pan_to(x, y, dx, dy): only dx and dy are read.
pan_to(dx, dy) ==
    /\ _x' = _x + pan_step(dx)
    /\ _y' = _y + pan_step(dy)
    /\ panSum' = <<panSum[1] + dx, panSum[2] + dy>>
    /\ nPans' = nPans + 1
    /\ raised' = "none"
    /\ UNCHANGED <<_rotation, _zoom, _distance, _count, _matrix, _theta,
                   _phi, gl, nDrags, distAssigned, frames>>

\* trackball.zoom = zoom
zoom_assign(zoom) ==
    /\ _zoom' = zoom_setter(zoom)
    /\ raised' = "none"
    /\ UNCHANGED <<_rotation, _distance, _count, _matrix, _theta, _phi,
                   _x, _y, gl, hist>>

\* trackball.distance = distance
distance_assign(distance) ==
    /\ _distance' = distance_setter(distance)
    /\ distAssigned' = TRUE
    /\ raised' = "none"
    /\ UNCHANGED <<_rotation, _zoom, _count, _matrix, _theta, _phi, _x, _y,
                   gl, nDrags, panSum, nPans, frames>>

\* Reading trackball.theta or trackball.phi: both cache both angles.
orientation_getter(name) ==
    IF _get_orientation_raises(_rotation)
    THEN /\ raised' = name
         /\ UNCHANGED <<obj, gl, hist>>
    ELSE /\ _theta' = _get_orientation(_rotation)[1]
         /\ _phi' = _get_orientation(_rotation)[2]
         /\ raised' = "none"
         /\ UNCHANGED <<_rotation, _zoom, _distance, _count, _matrix, _x, _y,
                        gl, hist>>

theta_getter == orientation_getter("theta")

phi_getter == orientation_getter("phi")

\* self._set_orientation(theta, phi) as a step.
set_orientation_step(theta, phi) ==
    /\ _theta' = theta
    /\ _phi' = phi
    /\ _rotation' = _set_orientation(theta, phi)
    /\ _matrix' = rotation_matrix(_set_orientation(theta, phi))
    /\ raised' = "none"
    /\ UNCHANGED <<_zoom, _distance, _count, _x, _y, gl, hist>>

\* Mutant of theta_setter: phi is recomputed from the current rotation
\* instead of taken from the cache.
theta_setter_fresh(theta) ==
    set_orientation_step(Fmod(theta, 360),
        IF _get_orientation_raises(_rotation) THEN Fmod(_phi, 360)
        ELSE Fmod(_get_orientation(_rotation)[2], 360))

\* trackball.theta = theta
theta_setter(theta) == set_orientation_step(Fmod(theta, 360), Fmod(_phi, 360))

\* trackball.phi = phi
phi_setter(phi) == set_orientation_step(Fmod(_theta, 360), Fmod(phi, 360))

\* -------------------------------------------------------------- push / pop
Front(stack) == SubSeq(stack, 1, Len(stack) - 1)

\* push(), the viewport being vw by vh pixels.  glPushMatrix and
\* glLoadIdentity on GL_PROJECTION come before the aspect ratio is computed,
\* and viewport[2] / float(viewport[3]), an int by a float, raises
\* ZeroDivisionError for vh = 0: the projection stack is left pushed.
push(vw, vh) ==
    IF vh = 0
    THEN /\ projStack' = Append(projStack, Identity)
         /\ matrixMode' = "PROJECTION"
         /\ raised' = "push"
         /\ UNCHANGED <<obj, mvStack, hist>>
    ELSE LET aspect == Div(vw * Unit, vh * Unit)
             top == Mul(Mul(3153, 1000), _zoom)
             bottom == -top
             left == Mul(aspect, bottom)
             right == Mul(aspect, top)
         IN  /\ projStack' = Append(projStack,
                    [kind |-> "frustum",
                     args |-> <<left, right, bottom, top, 1000, 100 * Unit>>,
                     m |-> <<>>])
             /\ mvStack' = Append(mvStack,
                    [kind |-> "view", args |-> <<_x, _y, -_distance>>,
                     m |-> _matrix])
             /\ matrixMode' = "MODELVIEW"
             /\ raised' = "none"
             /\ frames' = Append(frames, [proj |-> projStack, mv |-> mvStack])
             /\ UNCHANGED <<obj, nDrags, distAssigned, panSum, nPans>>

\* pop(): glPopMatrix on GL_MODELVIEW, then on GL_PROJECTION.  Popping a stack
\* of one matrix is the pipeline's error, not modelled.
pop ==
    /\ Len(mvStack) > 1
    /\ Len(projStack) > 1
    /\ mvStack' = Front(mvStack)
    /\ projStack' = Front(projStack)
    /\ matrixMode' = "PROJECTION"
    /\ raised' = "none"
    /\ frames' = Front(frames)
    /\ UNCHANGED <<obj, nDrags, distAssigned, panSum, nPans>>

\* ------------------------------------------------------------------ bounds
\* Operations per run of Spec.
MaxOps == 4

\* Drags per run of SpecLong.
MaxLongDrags == 100

\* ------------------------------------------------------------------ inputs
\* Constructor arguments <<theta, phi, zoom, distance>>.
CtorArgs ==
    { <<0, 0, Unit, 3 * Unit>>, <<0, 0, 20 * Unit, 0>>,
      <<45, 30, 1000, 3 * Unit>>, <<90, 45, Unit, 3 * Unit>> }

\* Viewports <<width, height>> the pipeline reports, in pixels.
Viewports == { <<20, 10>>, <<0, 0>> }

\* Drags <<x, y, dx, dy>> in pixels.
Drags == { <<10, 5, 0, 0>>, <<14, 5, 2, 1>>, <<6, 7, -4, 0>> }

Angles == { 60, -450 }

ZoomDeltas == { -4, 4 }

PanDeltas == { <<1, 1>>, <<-2, 3>> }

ZoomValues == { 0, 5 * Unit, 50 * Unit }

DistanceValues == { 0, 7 * Unit }

\* ----------------------------------------------------------- specification
Init ==
    /\ nOps = 0
    /\ \E a \in CtorArgs : Trackball_init(a[1], a[2], a[3], a[4])

\* One more operation of the run.
Tick == nOps < MaxOps /\ nOps' = nOps + 1

Drag ==
    /\ Tick
    /\ \E d \in Drags, v \in Viewports : drag_to(d[1], d[2], d[3], d[4], v[1], v[2])

Zoom == Tick /\ \E dy \in ZoomDeltas, v \in Viewports : zoom_to(dy, v[2])

Pan == Tick /\ \E d \in PanDeltas : pan_to(d[1], d[2])

SetZoom == Tick /\ \E z \in ZoomValues : zoom_assign(z)

SetDistance == Tick /\ \E d \in DistanceValues : distance_assign(d)

GetTheta == Tick /\ theta_getter

GetPhi == Tick /\ phi_getter

SetTheta == Tick /\ \E t \in Angles : theta_setter(t)

SetPhi == Tick /\ \E p \in Angles : phi_setter(p)

Push == Tick /\ \E v \in Viewports : push(v[1], v[2])

Pop == Tick /\ pop

Next ==
    \/ Drag
    \/ Zoom
    \/ Pan
    \/ SetZoom
    \/ SetDistance
    \/ GetTheta
    \/ GetPhi
    \/ SetTheta
    \/ SetPhi
    \/ Push
    \/ Pop

Spec == Init /\ [][Next]_vars

\* Long runs of drags alone, past the renormalization threshold.
LongDrags == { <<10, 5, 0, 0>>, <<14, 5, 2, 1>> }

DragLong ==
    /\ nDrags < MaxLongDrags
    /\ UNCHANGED nOps
    /\ \E d \in LongDrags : drag_to(d[1], d[2], d[3], d[4], 20, 10)

SpecLong == Init /\ [][DragLong]_vars

\* ------------------------------------------------------------------ claims

\* C1: whatever zoom the Trackball was built with, 0.25 <= zoom <= 10.0 holds
\* in every reachable state, from construction on.
C1_ZoomAlwaysInRange == 2500 <= _zoom /\ _zoom <= 10 * Unit

\* C2: assigning d to distance stores max(d, 1), no other operation changes
\* distance, and so distance >= 1 once a distance assignment has happened.
C2_DistanceClamped ==
    [][ /\ \A d \in DistanceValues :
              distance_assign(d) => _distance' = (IF d > Unit THEN d ELSE Unit)
        /\ (~ \E d \in DistanceValues : distance_assign(d)) => _distance' = _distance
        /\ distAssigned' => _distance' >= Unit ]_vars

\* A distance below 1 was assigned and clamped, with a drag and a pan among
\* the operations of the run.
C2_Witness ==
    distAssigned /\ _distance = Unit /\ nDrags > 0 /\ nPans > 0

\* C3: a drag with zero delta leaves the rotation quaternion and the cached
\* matrix exactly as they were, in every reachable state and for every pointer
\* position.
C3_ZeroDeltaDragKeepsRotation ==
    [][ (\E d \in Drags, v \in Viewports :
             d[3] = 0 /\ d[4] = 0 /\ drag_to(d[1], d[2], d[3], d[4], v[1], v[2]))
        => (_rotation' = _rotation /\ _matrix' = _matrix) ]_vars

\* C4: in every state reached after more than 97 drag calls the rotation
\* quaternion has length 1 within tolerance (0.001).
C4_UnitLengthAfter97Drags ==
    nDrags > 97 => Abs(_q_length(_rotation) - Unit) <= 10

\* C5 as stated: the cached matrix equals the rotation matrix computed from the
\* current rotation quaternion, in every reachable state.
C5_MatrixEqualsRotationMatrix ==
    \A i \in 1..16 : _matrix[i] = _q_rotmatrix(_rotation)[i]

\* C5 as amended: the cached matrix equals the GLfloat (single precision)
\* conversion of the rotation matrix computed from the current rotation
\* quaternion, in every reachable state.
C5_MatrixIsGLfloatOfRotationMatrix ==
    \A i \in 1..16 : _matrix[i] = GLfloat(_q_rotmatrix(_rotation))[i]

\* A drag has changed the rotation, and the matrix of the new rotation has an
\* entry that single precision does not hold.
C5_Witness ==
    /\ nDrags > 0
    /\ _rotation[3] = 0
    /\ _rotation[1] # 0
    /\ _matrix[6] # _q_rotmatrix(_rotation)[6]

\* C6: drag, zoom_by, pan_by and reads of theta and phi never raise, for any
\* finite arguments and any viewport, one of width 0 or height 0 included.
C6_NoOperationRaises ==
    raised \notin {"drag_to", "zoom_to", "pan_to", "theta", "phi"}

\* C7: a Trackball constructed with theta = 0 and phi = 0, whatever its zoom and
\* distance, has the identity rotation quaternion (0, 0, 0, 1) and the identity
\* matrix as its cached matrix.
C7_IdentityAtZeroAngles ==
    (nOps = 0 /\ _theta = 0 /\ _phi = 0)
        => /\ _rotation = <<0, 0, 0, Unit>>
           /\ \A i \in 1..16 : _matrix[i] = (IF i \in {1, 6, 11, 16} THEN Unit ELSE 0)

\* Just constructed with zero angles and a zoom and distance that are not the
\* defaults.
C7_Witness ==
    nOps = 0 /\ _theta = 0 /\ _phi = 0 /\ _zoom = 20 * Unit /\ _distance = 0

\* C8: the pan offset is (0.1 * sum of dx, 0.1 * sum of dy) over the pan_by
\* calls made, unclamped, whatever other operations come in between.
C8_PanAccumulates ==
    _x = RDiv(panSum[1] * Unit, 10) /\ _y = RDiv(panSum[2] * Unit, 10)

\* pan_by(1, 1) three times, and another operation, gave (0.3, 0.3).
C8_Witness ==
    nPans = 3 /\ panSum = <<3, 3>> /\ nOps = 4 /\ _x = 3000 /\ _y = 3000

\* C9: push pushes the projection stack and then the model-view stack, pop
\* pops both, and so the pop that closes a push leaves both stacks with the
\* depth and the contents they had before that push.
C9_PopRestoresStacks ==
    [][ Len(frames') < Len(frames)
            => /\ projStack' = frames[Len(frames)].proj
               /\ mvStack' = frames[Len(frames)].mv ]_vars

\* C10: assigning theta (phi) replaces the rotation by the constructor's
\* composition of the new angle mod 360 and the cached other angle mod 360; a
\* drag does not update the cached angles.
C10_SetterUsesCachedAngle ==
    [][ /\ \A t \in Angles :
              theta_setter(t)
                  => _rotation' = _set_orientation(Fmod(t, 360), Fmod(_phi, 360))
        /\ \A p \in Angles :
              phi_setter(p)
                  => _rotation' = _set_orientation(Fmod(_theta, 360), Fmod(p, 360))
        /\ nDrags' > nDrags => (_theta' = _theta /\ _phi' = _phi) ]_vars

\* After a drag, which leaves z = 0, an assignment has put the rotation back
\* to the composition of the cached angles, z component included: what the
\* drag contributed is gone.
C10_Witness ==
    /\ nDrags > 0
    /\ _rotation[3] # 0
    /\ _rotation = _set_orientation(_theta, _phi)
    /\ _count > 0

====
